---------------------------- MODULE Spec2Model ----------------------------
(***************************************************************************)
(* dsa::spinlock<WaitDurationType, wait_count> (src/spinlock.hpp).         *)
(*                                                                         *)
(* The lock is one std::atomic_flag.  lock() is modelled at the grain of   *)
(* its atomic operations and clock reads: one step per statement of the    *)
(* loop at lines 139-156.  try_lock() and unlock() are one atomic          *)
(* operation each.  Threads are the callers of the class description       *)
(* (lines 46-62).  Time is std::chrono::steady_clock, counted in ticks of  *)
(* duration_type.                                                          *)
(*                                                                         *)
(* The acquire/release orderings are modelled with views: the shared data  *)
(* a lock protects is a sequence of writes numbered 1, 2, ...; view[t] is  *)
(* the newest write that happens-before thread t's next access; the flag   *)
(* carries the view published by the last release store that heads its     *)
(* release sequence.                                                       *)
(***************************************************************************)
EXTENDS Integers, Naturals, FiniteSets, Sequences, TLC

\* ------------------------------------------------------------- bounds
NumThreads   == 2      \* threads sharing the one spinlock
MaxClock     == 2      \* steady_clock readings 0..MaxClock; wait_count up to MaxClock
MaxData      == 2      \* writes to the protected data in one behaviour
MaxIter      == 2      \* iterations of the lock/unlock loop of a looping thread
MaxLog       == 4      \* completed calls recorded since construction

Threads == 1..NumThreads

\* Candidate values of the template argument wait_count (line 105), before
\* the static_assert looks at them.
WaitCounts == (0 - 1)..MaxClock

\* Values a caller may pass to lock () as wait_time instead of the default
\* (line 137); duration_type has a signed rep, so zero and negative durations
\* are values of the type.  A positive wait_time is had from the default.
WaitTimes == {0 - 1, 0}

VARIABLES
  default_wait_time,  \* line 118: static constexpr duration_type
  lock_flag,          \* line 125: std::atomic_flag, TRUE = set (held)
  flag_view,          \* the view the flag's current value publishes
  clock,              \* std::chrono::steady_clock::now ()
  pc,                 \* pc[t]: where thread t is inside lock (), or "idle"
  wait_time,          \* wait_time[t]: lock ()'s parameter (line 137)
  start,              \* start[t]: lock ()'s local (line 140)
  yielded,            \* yielded[t]: this lock () call has reached line 155
  owns,               \* owns[t]: t acquired and has not called unlock () since
  ret,                \* ret[t]: what t's last try_lock () returned
  data,               \* number of the newest write to the protected data
  view,               \* view[t]: newest write that happens-before t's next access
  writer,             \* the thread that made the newest write, 0 for none
  seen,               \* seen[t]: what t's last read of the protected data gave
  claims,             \* test_and_sets that found the flag clear since the last clear
  todo,               \* todo[t]: iterations a looping thread has left
  log,                \* the first MaxLog completed calls since construction
  free_unlocked       \* an unlock () has been executed on a free lock

vars == <<default_wait_time, lock_flag, flag_view, clock, pc, wait_time,
          start, yielded, owns, ret, view, claims, data, writer, seen, todo, log, free_unlocked>>

\* What the lock's own operations never touch: the protected data and the
\* callers' bookkeeping.
client == <<data, writer, seen, todo, log, free_unlocked>>

\* ------------------------------------------------------ pure helpers

\* std::chrono::duration_cast to a duration whose period is num/den of the
\* source's: integer arithmetic, truncating toward zero.
duration_cast(count, num, den) ==
  IF count >= 0 THEN (count * num) \div den
                ELSE 0 - (((0 - count) * num) \div den)

\* Ticks of duration_type per tick of WaitDurationType.  duration_type is
\* the common type of WaitDurationType and nanoseconds (lines 112-115); the
\* instantiation modelled is WaitDurationType = std::chrono::nanoseconds.
WaitPeriod == 1

\* Ticks of duration_type per tick of steady_clock::duration (nanoseconds).
ClockPeriod == 1

\* Mutant of static_assert_wait_count: the assertion is missing.
static_assert_wait_count_off(wc) == TRUE

\* line 110: static_assert (wait_count > 0, ...)
static_assert_wait_count(wc) == wc > 0

\* lines 118-122: duration_cast <duration_type> (WaitDurationType {wait_count})
default_wait_time_of(wc) == duration_cast(wc, WaitPeriod, 1)

\* lines 144-146: duration_cast <duration_type> (now - start)
elapsed(now, st) == duration_cast(now - st, ClockPeriod, 1)

\* Mutant of goto_yield: the comparison is strict.
goto_yield_strict(el, wt) == el > wt

\* line 148: if (elapsed >= wait_time) goto yield;
goto_yield(el, wt) == el >= wt

\* Mutant of flag_init: the flag starts set.
flag_init_set == TRUE

\* line 125: std::atomic_flag lock_flag = ATOMIC_FLAG_INIT (the clear state).
flag_init == FALSE

\* Mutant of test_and_set_stored: a test without the set.
test_and_set_stored_clear == FALSE

\* Mutant of test_and_set_stored: the flag is flipped instead of set.
test_and_set_stored_flip == ~lock_flag

\* Mutant of test_and_set_returns: a plain store that reports the flag clear.
test_and_set_returns_clear(flag) == FALSE

\* std::atomic_flag::test_and_set: the value stored, and the value returned
\* (the previous value of the flag).
test_and_set_stored == TRUE
test_and_set_returns(flag) == flag

\* Mutant of try_lock_returns: the negation is missing.
try_lock_returns_unnegated(prev) == prev

\* line 161: return !lock_flag.test_and_set (...)
try_lock_returns(prev) == ~prev

\* Mutant of clear_stored: the clear inverts the flag.
clear_stored_flip == ~lock_flag

\* Mutant of clear_stored: the clear stores the set value.
clear_stored_set == TRUE

\* std::atomic_flag::clear: the value stored.
clear_stored == FALSE

\* memory_order_acquire on the read-modify-write (lines 142, 161): the thread
\* joins the view published by the value it read.
acquire_view(t) == IF flag_view > view[t] THEN flag_view ELSE view[t]

\* A read-modify-write continues the release sequence of the store it read
\* from, so the flag's published view is unchanged by test_and_set.
test_and_set_view == flag_view

\* Mutant of release_view: the clear is a relaxed store, which publishes
\* nothing.
release_view_relaxed(t) == 0

\* memory_order_release on clear (line 166): the store publishes the
\* caller's view.
release_view(t) == view[t]

BoolStr(b) == IF b THEN "true" ELSE "false"

\* ------------------------------------------------------------ Init

\* line 128: constexpr spinlock (void) noexcept = default, with the member
\* initialiser of line 125 (ATOMIC_FLAG_INIT).  Only instantiations that
\* pass the static_assert exist.
InitLock ==
  /\ default_wait_time \in
       {default_wait_time_of(wc) : wc \in {c \in WaitCounts : static_assert_wait_count(c)}}
  /\ lock_flag = flag_init
  /\ flag_view = 0
  /\ clock = 0
  /\ pc = [t \in Threads |-> "idle"]
  /\ wait_time = [t \in Threads |-> 0]
  /\ start = [t \in Threads |-> 0]
  /\ yielded = [t \in Threads |-> FALSE]
  /\ owns = [t \in Threads |-> FALSE]
  /\ ret = [t \in Threads |-> "none"]
  /\ claims = 0
  /\ data = 0
  /\ writer = 0
  /\ view = [t \in Threads |-> 0]
  /\ seen = [t \in Threads |-> 0]
  /\ log = <<>>
  /\ free_unlocked = FALSE

Init ==
  /\ InitLock
  /\ todo = [t \in Threads |-> 0]

\* The instantiation with wait_count = 1.
UnitInit == Init /\ default_wait_time = default_wait_time_of(1)

\* ------------------------------------------------- steady_clock

\* Time passes: the steady clock is monotonic.
Tick ==
  /\ clock < MaxClock
  /\ clock' = clock + 1
  /\ UNCHANGED <<default_wait_time, lock_flag, flag_view, pc, wait_time,
                 start, yielded, owns, ret, view, claims>>

\* ------------------------------------------------------- lock ()

\* The count of test_and_sets that returned false since the last clear.
count_claim(prev) == IF prev THEN claims ELSE claims + 1

\* Mutant of lock_call: a call with a non-positive wait_time is refused.
lock_call_rejects(t, wt) ==
  /\ wt > 0
  /\ pc[t] = "idle"
  /\ pc' = [pc EXCEPT ![t] = "start"]
  /\ wait_time' = [wait_time EXCEPT ![t] = wt]
  /\ yielded' = [yielded EXCEPT ![t] = FALSE]
  /\ ret' = [ret EXCEPT ![t] = "none"]
  /\ UNCHANGED <<default_wait_time, lock_flag, flag_view, clock, start, owns,
                 view, claims>>

\* line 137: thread t calls lock (wt).
lock_call(t, wt) ==
  /\ pc[t] = "idle"
  /\ pc' = [pc EXCEPT ![t] = "start"]
  /\ wait_time' = [wait_time EXCEPT ![t] = wt]
  /\ yielded' = [yielded EXCEPT ![t] = FALSE]
  /\ ret' = [ret EXCEPT ![t] = "none"]
  /\ UNCHANGED <<default_wait_time, lock_flag, flag_view, clock, start, owns,
                 view, claims>>

\* line 140: auto const start {steady_clock::now ()} opens a spin phase.
lock_start(t) ==
  /\ pc[t] = "start"
  /\ start' = [start EXCEPT ![t] = clock]
  /\ pc' = [pc EXCEPT ![t] = "tas"]
  /\ UNCHANGED <<default_wait_time, lock_flag, flag_view, clock, wait_time,
                 yielded, owns, ret, view, claims>>

\* Mutant of lock_test_and_set: the lock is re-entrant, a caller that
\* already owns it leaves the loop.
lock_test_and_set_reentrant(t) ==
  /\ pc[t] = "tas"
  /\ lock_flag' = test_and_set_stored
  /\ flag_view' = test_and_set_view
  /\ view' = [view EXCEPT ![t] = acquire_view(t)]
  /\ claims' = count_claim(test_and_set_returns(lock_flag))
  /\ IF test_and_set_returns(lock_flag) /\ ~owns[t]
       THEN /\ pc' = [pc EXCEPT ![t] = "now"]
            /\ UNCHANGED <<wait_time, start, owns>>
       ELSE /\ pc' = [pc EXCEPT ![t] = "idle"]
            /\ owns' = [owns EXCEPT ![t] = TRUE]
            /\ wait_time' = [wait_time EXCEPT ![t] = 0]
            /\ start' = [start EXCEPT ![t] = 0]
  /\ UNCHANGED <<default_wait_time, clock, yielded, ret>>

\* line 142: while (lock_flag.test_and_set (acquire)); on a false return the
\* loop is left and line 153 returns.
lock_test_and_set(t) ==
  /\ pc[t] = "tas"
  /\ lock_flag' = test_and_set_stored
  /\ flag_view' = test_and_set_view
  /\ view' = [view EXCEPT ![t] = acquire_view(t)]
  /\ claims' = count_claim(test_and_set_returns(lock_flag))
  /\ IF test_and_set_returns(lock_flag)
       THEN /\ pc' = [pc EXCEPT ![t] = "now"]
            /\ UNCHANGED <<wait_time, start, owns>>
       ELSE /\ pc' = [pc EXCEPT ![t] = "idle"]
            /\ owns' = [owns EXCEPT ![t] = TRUE]
            /\ wait_time' = [wait_time EXCEPT ![t] = 0]
            /\ start' = [start EXCEPT ![t] = 0]
  /\ UNCHANGED <<default_wait_time, clock, yielded, ret>>

\* Mutant of lock_now: wait_time is a give-up timeout, lock () returns when
\* it has elapsed.
lock_now_gives_up(t) ==
  /\ pc[t] = "now"
  /\ IF goto_yield(elapsed(clock, start[t]), wait_time[t])
       THEN /\ pc' = [pc EXCEPT ![t] = "idle"]
            /\ wait_time' = [wait_time EXCEPT ![t] = 0]
            /\ start' = [start EXCEPT ![t] = 0]
       ELSE /\ pc' = [pc EXCEPT ![t] = "tas"]
            /\ UNCHANGED <<wait_time, start>>
  /\ UNCHANGED <<default_wait_time, lock_flag, flag_view, clock,
                 yielded, owns, ret, view, claims>>

\* Mutant of lock_now: the inner loop waits for the time to elapse without
\* attempting the claim again.
lock_now_spins(t) ==
  /\ pc[t] = "now"
  /\ IF goto_yield(elapsed(clock, start[t]), wait_time[t])
       THEN pc' = [pc EXCEPT ![t] = "yield"]
       ELSE pc' = pc
  /\ UNCHANGED <<default_wait_time, lock_flag, flag_view, clock, wait_time,
                 start, yielded, owns, ret, view, claims>>

\* lines 143-150: read the clock, compare the elapsed time with wait_time.
lock_now(t) ==
  /\ pc[t] = "now"
  /\ IF goto_yield(elapsed(clock, start[t]), wait_time[t])
       THEN pc' = [pc EXCEPT ![t] = "yield"]
       ELSE pc' = [pc EXCEPT ![t] = "tas"]
  /\ UNCHANGED <<default_wait_time, lock_flag, flag_view, clock, wait_time,
                 start, yielded, owns, ret, view, claims>>

\* Mutant of lock_yield: after the yield the outer loop is not taken again.
lock_yield_parks(t) ==
  /\ pc[t] = "yield"
  /\ yielded' = [yielded EXCEPT ![t] = TRUE]
  /\ UNCHANGED <<default_wait_time, lock_flag, flag_view, clock, pc, wait_time,
                 start, owns, ret, view, claims>>

\* lines 154-156: std::this_thread::yield (), then the outer loop again.
lock_yield(t) ==
  /\ pc[t] = "yield"
  /\ pc' = [pc EXCEPT ![t] = "start"]
  /\ yielded' = [yielded EXCEPT ![t] = TRUE]
  /\ UNCHANGED <<default_wait_time, lock_flag, flag_view, clock, wait_time,
                 start, owns, ret, view, claims>>

\* One step of a lock () call in progress.
lock_step(t) ==
  \/ lock_start(t)
  \/ lock_test_and_set(t)
  \/ lock_now(t)
  \/ lock_yield(t)

\* ---------------------------------------------------- try_lock ()

\* Mutant of try_lock: the call waits for the flag to be clear.
try_lock_waits(t) ==
  /\ pc[t] = "idle"
  /\ ~lock_flag
  /\ lock_flag' = test_and_set_stored
  /\ flag_view' = test_and_set_view
  /\ view' = [view EXCEPT ![t] = acquire_view(t)]
  /\ claims' = count_claim(test_and_set_returns(lock_flag))
  /\ ret' = [ret EXCEPT ![t] = BoolStr(try_lock_returns(test_and_set_returns(lock_flag)))]
  /\ owns' = [owns EXCEPT ![t] = owns[t] \/ try_lock_returns(test_and_set_returns(lock_flag))]
  /\ UNCHANGED <<default_wait_time, clock, pc, wait_time, start, yielded>>

\* lines 159-162
try_lock(t) ==
  /\ pc[t] = "idle"
  /\ lock_flag' = test_and_set_stored
  /\ flag_view' = test_and_set_view
  /\ view' = [view EXCEPT ![t] = acquire_view(t)]
  /\ claims' = count_claim(test_and_set_returns(lock_flag))
  /\ ret' = [ret EXCEPT ![t] = BoolStr(try_lock_returns(test_and_set_returns(lock_flag)))]
  /\ owns' = [owns EXCEPT ![t] = owns[t] \/ try_lock_returns(test_and_set_returns(lock_flag))]
  /\ UNCHANGED <<default_wait_time, clock, pc, wait_time, start, yielded>>

\* ------------------------------------------------------ unlock ()

\* Mutant of unlock: the call checks that the caller owns the spinlock
\* and does nothing else otherwise.
unlock_checked(t) ==
  /\ pc[t] = "idle"
  /\ owns[t]
  /\ lock_flag' = clear_stored
  /\ flag_view' = release_view(t)
  /\ claims' = 0
  /\ owns' = [owns EXCEPT ![t] = FALSE]
  /\ ret' = [ret EXCEPT ![t] = "none"]
  /\ UNCHANGED <<default_wait_time, clock, pc, wait_time, start, yielded, view>>

\* lines 164-167
unlock(t) ==
  /\ pc[t] = "idle"
  /\ lock_flag' = clear_stored
  /\ flag_view' = release_view(t)
  /\ claims' = 0
  /\ owns' = [owns EXCEPT ![t] = FALSE]
  /\ ret' = [ret EXCEPT ![t] = "none"]
  /\ UNCHANGED <<default_wait_time, clock, pc, wait_time, start, yielded, view>>

\* ------------------------------------------------ the callers

\* The caller discipline of the class description (lines 46-54): a thread
\* calls lock or try_lock only when it does not own the spinlock, and
\* unlock only when it does.
MayClaim(t) == ~owns[t]
MayRelease(t) == owns[t]

\* A thread is inside lock (); the threads that own the spinlock.
InLock(t) == pc[t] # "idle"
Owners == {t \in Threads : owns[t]}

\* Threads that call lock, try_lock and unlock in any order the discipline
\* allows, for ever.
Next ==
  \/ Tick /\ UNCHANGED client
  \/ \E t \in Threads :
       \/ \E wt \in WaitTimes \cup {default_wait_time} :
            MayClaim(t) /\ lock_call(t, wt) /\ UNCHANGED client
       \/ lock_step(t) /\ UNCHANGED client
       \/ MayClaim(t) /\ try_lock(t) /\ UNCHANGED client
       \/ MayRelease(t) /\ unlock(t) /\ UNCHANGED client

Spec == Init /\ [][Next]_vars

\* Disciplined threads that call lock () with the default wait_time.
DefaultNext ==
  \/ Tick /\ UNCHANGED client
  \/ \E t \in Threads :
       \/ MayClaim(t) /\ lock_call(t, default_wait_time) /\ UNCHANGED client
       \/ lock_step(t) /\ UNCHANGED client
       \/ MayClaim(t) /\ try_lock(t) /\ UNCHANGED client
       \/ MayRelease(t) /\ unlock(t) /\ UNCHANGED client

\* The same under a fair scheduler: a thread inside lock () is eventually
\* given its next step.  Nothing obliges a thread to call or to unlock.
FairSpec ==
  /\ Init
  /\ [][DefaultNext]_vars
  /\ \A t \in Threads : WF_vars(lock_step(t) /\ UNCHANGED client)

\* The disciplined threads under a scheduler that lets every thread inside
\* lock () take its steps, and with owners that do not keep the spinlock for
\* ever: an owner's unlock is eventually called.
ReleasingSpec ==
  /\ Init
  /\ [][DefaultNext]_vars
  /\ \A t \in Threads : WF_vars(lock_step(t) /\ UNCHANGED client)
  /\ \A t \in Threads : WF_vars(MayRelease(t) /\ unlock(t) /\ UNCHANGED client)

\* Callers that keep no discipline: any thread may call any operation
\* whenever it is not inside lock ().
AnyNext ==
  \/ Tick /\ UNCHANGED client
  \/ \E t \in Threads :
       \/ lock_call(t, default_wait_time) /\ UNCHANGED client
       \/ lock_step(t) /\ UNCHANGED client
       \/ try_lock(t) /\ UNCHANGED client
       \/ unlock(t) /\ UNCHANGED client

AnySpec == Init /\ [][AnyNext]_vars

\* Callers that break one rule only: a thread may call lock or try_lock
\* while it owns the spinlock.  unlock is still called by owners only.
RecursionNext ==
  \/ Tick /\ UNCHANGED client
  \/ \E t \in Threads :
       \/ lock_call(t, default_wait_time) /\ UNCHANGED client
       \/ lock_step(t) /\ UNCHANGED client
       \/ try_lock(t) /\ UNCHANGED client
       \/ MayRelease(t) /\ unlock(t) /\ UNCHANGED client

RecursionSpec == Init /\ [][RecursionNext]_vars

\* Callers that break one rule only: a thread may call unlock while the
\* lock is free and no thread owns it.  Every other call keeps the
\* discipline.
free_unlock(t) ==
  /\ ~lock_flag /\ Owners = {}
  /\ unlock(t)
  /\ free_unlocked' = TRUE
  /\ UNCHANGED <<data, writer, seen, todo, log>>

FreeUnlockNext ==
  \/ Tick /\ UNCHANGED client
  \/ \E t \in Threads :
       \/ MayClaim(t) /\ lock_call(t, default_wait_time) /\ UNCHANGED client
       \/ lock_step(t) /\ UNCHANGED client
       \/ MayClaim(t) /\ try_lock(t) /\ UNCHANGED client
       \/ MayRelease(t) /\ unlock(t) /\ UNCHANGED client
       \/ free_unlock(t)

FreeUnlockSpec == Init /\ [][FreeUnlockNext]_vars

\* A schedule of disciplined threads that is unkind to one of them.  The
\* scheduler runs the victim's test_and_set (line 142) only while the flag
\* is set, and the other threads call lock () only after the victim has
\* called it.  Every thread is scheduled again and again: a step that can be
\* taken infinitely often is taken infinitely often.
Victim == CHOOSE t \in Threads : TRUE

victim_step ==
  \/ MayClaim(Victim) /\ lock_call(Victim, default_wait_time) /\ UNCHANGED client
  \/ lock_start(Victim) /\ UNCHANGED client
  \/ lock_flag /\ lock_test_and_set(Victim) /\ UNCHANGED client
  \/ lock_now(Victim) /\ UNCHANGED client
  \/ lock_yield(Victim) /\ UNCHANGED client

other_step(u) ==
  \/ InLock(Victim) /\ MayClaim(u) /\ lock_call(u, default_wait_time) /\ UNCHANGED client
  \/ lock_step(u) /\ UNCHANGED client
  \/ MayRelease(u) /\ unlock(u) /\ UNCHANGED client

StarveNext ==
  \/ Tick /\ UNCHANGED client
  \/ victim_step
  \/ \E u \in Threads \ {Victim} : other_step(u)

StarveSpec ==
  /\ Init
  /\ [][StarveNext]_vars
  /\ SF_vars(victim_step)
  /\ \A u \in Threads \ {Victim} : WF_vars(other_step(u))

\* Callers of try_lock and unlock only, in any order, with every call
\* recorded in the order of completion until the record is full.
Logged(t, o, r) ==
  log' = IF Len(log) < MaxLog THEN Append(log, [th |-> t, op |-> o, r |-> r])
                              ELSE log

RoundTripNext ==
  \E t \in Threads :
    \/ try_lock(t) /\ Logged(t, "try_lock", ret'[t]) /\ UNCHANGED <<data, writer, seen, todo, free_unlocked>>
    \/ unlock(t) /\ Logged(t, "unlock", "none") /\ UNCHANGED <<data, writer, seen, todo, free_unlocked>>

RoundTripSpec == UnitInit /\ [][RoundTripNext]_vars

\* The critical section: the owner writes and reads the data the lock
\* protects.  An access that is not ordered after the newest write races
\* with it, and a racing read may give any value written so far.
visible(t) == IF view[t] = data THEN {data} ELSE 0..data

cs_write(t) ==
  /\ owns[t] /\ pc[t] = "idle"
  /\ data < MaxData
  /\ data' = data + 1
  /\ writer' = t
  /\ view' = [view EXCEPT ![t] = data + 1]
  /\ UNCHANGED <<default_wait_time, lock_flag, flag_view, clock, pc, wait_time,
                 start, yielded, owns, ret, claims, seen, todo, log, free_unlocked>>

cs_read(t) ==
  /\ owns[t] /\ pc[t] = "idle"
  /\ \E v \in visible(t) : seen' = [seen EXCEPT ![t] = v]
  /\ UNCHANGED <<default_wait_time, lock_flag, flag_view, clock, pc, wait_time,
                 start, yielded, owns, ret, view, claims, data, writer, todo, log, free_unlocked>>

\* Disciplined threads whose critical sections access the protected data;
\* what a thread read is forgotten when it leaves its critical section.
MemNext ==
  \/ Tick /\ UNCHANGED client
  \/ \E t \in Threads :
       \/ MayClaim(t) /\ lock_call(t, default_wait_time) /\ UNCHANGED client
       \/ lock_step(t) /\ UNCHANGED client
       \/ MayClaim(t) /\ try_lock(t) /\ UNCHANGED client
       \/ cs_write(t)
       \/ cs_read(t)
       \/ /\ MayRelease(t)
          /\ unlock(t)
          /\ seen' = [seen EXCEPT ![t] = 0]
          /\ UNCHANGED <<data, writer, todo, log, free_unlocked>>

MemSpec == UnitInit /\ [][MemNext]_vars

\* Threads that each run  lock (); critical section; unlock ()  in a loop,
\* todo[t] times, under a fair scheduler: a thread that can take a step is
\* eventually given one.  The instantiation is the one with wait_count = 1.
LoopInit ==
  /\ InitLock
  /\ default_wait_time = default_wait_time_of(1)
  /\ todo \in {[t \in Threads |-> n] : n \in 1..MaxIter}

loop_thread(t) ==
  \/ todo[t] > 0 /\ MayClaim(t) /\ lock_call(t, default_wait_time) /\ UNCHANGED client
  \/ lock_step(t) /\ UNCHANGED client
  \/ /\ MayRelease(t)
     /\ unlock(t)
     /\ todo' = [todo EXCEPT ![t] = todo[t] - 1]
     /\ UNCHANGED <<data, writer, seen, log, free_unlocked>>

LoopNext ==
  \/ Tick /\ UNCHANGED client
  \/ \E t \in Threads : loop_thread(t)

LoopSpec == LoopInit /\ [][LoopNext]_vars /\ \A t \in Threads : WF_vars(loop_thread(t))

\* ------------------------------------------------------- claims

\* C1: mutual exclusion.  When every thread keeps the caller discipline, at
\* most one thread is between its acquisition and its unlock () in every
\* reachable state.
MutualExclusion == Cardinality(Owners) <= 1

\* One thread is in its critical section while another has spun through a
\* whole phase, yielded, and is spinning again.
MutualExclusionWitness ==
  \E t, u \in Threads :
    t # u /\ owns[t] /\ pc[u] = "now" /\ yielded[u] /\ lock_flag

\* C2: try_lock () is one claim attempt.  On a clear flag it returns true and
\* leaves the flag set; on a set flag, whoever set it, it returns false and
\* changes neither the flag nor any thread's ownership or position.
TryLockContract ==
  [][\A t \in Threads :
       try_lock(t) =>
         IF lock_flag
           THEN /\ ret'[t] = "false"
                /\ lock_flag'
                /\ UNCHANGED <<owns, pc, wait_time, start, yielded, clock,
                               claims, default_wait_time, data>>
           ELSE /\ ret'[t] = "true"
                /\ lock_flag'
                /\ owns'[t]]_vars

\* One try_lock () has returned true and a later one, on the held lock, false.
TryLockWitness ==
  \E t, u \in Threads :
    t # u /\ owns[t] /\ ret[t] = "true" /\ ret[u] = "false" /\ lock_flag

\* C3: lock () returns only from its own test_and_set having found the flag
\* clear: every step that ends a lock () call is a step from line 142 taken
\* with the flag clear, after which the flag is set and the caller is the
\* only owner.  No spin phase or yield ends the call.
LockReturnsOnlyByClaim ==
  [][\A t \in Threads :
       (InLock(t) /\ ~InLock(t)') =>
         /\ pc[t] = "tas"
         /\ ~lock_flag
         /\ lock_flag'
         /\ owns'[t]
         /\ Owners' = {t}]_vars

\* A lock () call that went through a yield has returned, with the lock.
LockReturnsWitness ==
  \E t \in Threads : ~InLock(t) /\ owns[t] /\ yielded[t] /\ ret[t] = "none"

\* Every looping thread has run all its iterations.
LoopDone == \A t \in Threads : todo[t] = 0 /\ ~owns[t] /\ ~InLock(t)

\* C4: liveness under contention.  Threads that each run lock (); critical
\* section; unlock () a bounded number of times all finish their iterations
\* under a fair scheduler.
LoopsComplete == <>LoopDone

\* Every thread has finished, and at least one of them had to yield inside
\* its last lock () call.
LoopsCompleteWitness == LoopDone /\ \E t \in Threads : yielded[t]

\* C5: wait-duration behaviour.  A thread inside lock (), wherever it is in
\* the loop, eventually makes its next claim attempt; and once a waiter that
\* has already yielded sees the flag cleared, it acquires the lock unless
\* another thread claims it first.
WaiterAcquires ==
  \A w \in Threads :
    /\ InLock(w) ~> (pc[w] = "tas")
    /\ (InLock(w) /\ yielded[w] /\ ~lock_flag)
         ~> (owns[w] \/ \E u \in Threads \ {w} : owns[u])

\* A waiter that yielded while the lock was held has returned from lock ()
\* with the lock, the holder having released it.
WaiterAcquiresWitness ==
  \E w \in Threads :
    /\ owns[w] /\ yielded[w] /\ ret[w] = "none" /\ ~InLock(w)
    /\ \A u \in Threads \ {w} : ~owns[u] /\ ~InLock(u)

\* The round trip, and what each of its calls returns.
Script == <<"try_lock", "try_lock", "unlock", "try_lock">>
Expected == <<"true", "false", "none", "true">>

FollowsScript(n) ==
  \A i \in 1..n : log[i].th = log[1].th /\ log[i].op = Script[i]

\* C6: single-thread round trip.  On a fresh lock, try_lock, try_lock,
\* unlock, try_lock by one thread, with no other call in between, return
\* true, false, nothing, true; and whenever a try_lock is the first call to
\* complete after an unlock, it returns true.
RoundTrip ==
  /\ \A n \in 1..Len(log) :
       (n <= Len(Script) /\ FollowsScript(n)) => log[n].r = Expected[n]
  /\ \A i \in 1..(Len(log) - 1) :
       (log[i].op = "unlock" /\ log[i + 1].op = "try_lock") => log[i + 1].r = "true"

\* The whole script has been run by one thread.
RoundTripWitness == Len(log) >= Len(Script) /\ FollowsScript(Len(Script))

\* C7: an unlock () makes the lock available to exactly one claimant.  Since
\* the last clear (or construction) at most one test_and_set has found the
\* flag clear; the flag is set exactly when one has; a claim attempt made
\* while the flag is set fails and changes no ownership; and a disciplined
\* unlock () ends a period in which exactly one claim succeeded.
OneClaimPerUnlock ==
  [][/\ claims' <= 1
     /\ lock_flag' <=> (claims' = 1)
     /\ \A t \in Threads :
          /\ (lock_flag /\ (lock_test_and_set(t) \/ try_lock(t))) =>
               (owns' = owns /\ claims' = claims /\ lock_flag')
          /\ (MayRelease(t) /\ unlock(t)) => (claims = 1 /\ claims' = 0)]_vars

\* Two threads raced for the lock after it had been released: one is the
\* owner, the other's try_lock () failed.
OneClaimPerUnlockWitness ==
  \E t, u \in Threads :
    /\ t # u /\ owns[t] /\ claims = 1
    /\ ret[u] = "false"
    /\ yielded[t]

\* The kinds of step a thread or the clock can take, by their effect on
\* the flag.
ClaimStep(t) == ~lock_flag /\ (lock_test_and_set(t) \/ try_lock(t))

FailedClaimStep(t) == lock_flag /\ (lock_test_and_set(t) \/ try_lock(t))

OtherStep(t) ==
  \/ lock_start(t)
  \/ lock_now(t)
  \/ lock_yield(t)
  \/ \E wt \in WaitTimes \cup {default_wait_time} : lock_call(t, wt)
  \/ Tick

\* C8: the two-state machine.  The flag is clear at construction; a step
\* that sets it is a test_and_set (in lock () or try_lock ()) that found it
\* clear; a step that clears it is an unlock (); failed claim attempts,
\* clock reads, yields and calls of lock () leave it as it is.
TwoStateMachine ==
  /\ lock_flag = FALSE
  /\ [][/\ (~lock_flag /\ lock_flag') => \E t \in Threads : ClaimStep(t)
        /\ (lock_flag /\ ~lock_flag') => \E t \in Threads : unlock(t)
        /\ \A t \in Threads :
             (FailedClaimStep(t) \/ OtherStep(t)) => (lock_flag' = lock_flag)]_vars

\* The flag was set by a try_lock () and stays set while another thread, in
\* its second spin phase inside lock (), has failed a claim, read the clock
\* and is about to yield again.
TwoStateMachineWitness ==
  \E t, u \in Threads :
    /\ t # u /\ pc[t] = "yield" /\ yielded[t]
    /\ owns[u] /\ ret[u] = "true" /\ lock_flag /\ clock > 0

\* C9: try_lock () and unlock () never block.  A thread that is not inside
\* lock () can always take either as one step, whatever the flag holds and
\* whatever the other threads do; the step starts and ends outside lock ()
\* and reads no clock and yields nothing.
NeverBlocks ==
  /\ [](\A t \in Threads : ~InLock(t) => (ENABLED try_lock(t)) /\ (ENABLED unlock(t)))
  /\ [][\A t \in Threads :
          (try_lock(t) \/ unlock(t)) =>
            /\ ~InLock(t) /\ ~InLock(t)'
            /\ UNCHANGED <<pc, start, wait_time, yielded, clock>>]_vars

\* A try_lock () has returned on a held lock while another thread is in its
\* second spin phase inside lock ().
NeverBlocksWitness ==
  \E t, u \in Threads :
    t # u /\ ret[t] = "false" /\ ~InLock(t) /\ InLock(u) /\ yielded[u] /\ lock_flag

\* C10: memory visibility.  When a claim returns, every write made to the
\* protected data so far happens-before the new owner's accesses; a read in
\* a critical section gives the newest write.
MemoryVisibility ==
  [][\A t \in Threads :
       /\ (~owns[t] /\ owns'[t]) => view'[t] = data'
       /\ cs_read(t) => seen'[t] = data]_vars

\* A thread has read, in its critical section, a write made by another
\* thread in an earlier critical section.
MemoryVisibilityWitness ==
  \E t \in Threads :
    owns[t] /\ data > 0 /\ writer # t /\ writer # 0 /\ seen[t] = data

\* C11: no recursion.  When no thread but an owner calls unlock (), a
\* thread that calls lock () while it owns the spinlock finds the flag set
\* at every attempt and stays inside lock (), still the owner, for ever; a
\* try_lock () by an owner returns false.
NoRecursion ==
  [][\A t \in Threads :
       /\ (owns[t] /\ InLock(t)) => (lock_flag /\ owns'[t] /\ InLock(t)')
       /\ (owns[t] /\ try_lock(t)) => ret'[t] = "false"]_vars

\* An owner is inside lock (), has been through a whole spin phase and a
\* yield, and has failed another attempt.
NoRecursionWitness ==
  \E t \in Threads : owns[t] /\ pc[t] = "yield" /\ yielded[t] /\ clock = MaxClock

\* C12: unlock () by a thread that does not hold the lock breaks mutual
\* exclusion.  While a thread u owns the spinlock, an unlock () by another
\* thread t is accepted without any check or error and clears the flag
\* although u still owns; and once the flag is clear under an owner, a claim
\* by another thread, by try_lock () or by the test_and_set of lock (),
\* succeeds, which puts two threads in the critical section at once.
ForeignUnlock ==
  \A t, u \in Threads :
    (t # u /\ owns[u]) =>
      /\ pc[t] = "idle" =>
           ENABLED (/\ unlock(t) /\ UNCHANGED client
                    /\ ~lock_flag' /\ owns'[u] /\ ret'[t] = "none")
      /\ (pc[t] = "idle" /\ ~lock_flag /\ ~owns[t]) =>
           ENABLED (/\ try_lock(t) /\ UNCHANGED client
                    /\ ret'[t] = "true" /\ owns'[t] /\ owns'[u])
      /\ (pc[t] = "tas" /\ ~lock_flag /\ ~owns[t]) =>
           ENABLED (/\ lock_test_and_set(t) /\ UNCHANGED client
                    /\ ~InLock(t)' /\ owns'[t] /\ owns'[u])

\* Two threads own the spinlock at once, one by try_lock () and one by
\* lock (), neither of them having claimed while it already owned.
ForeignUnlockWitness ==
  \E t, u \in Threads :
    /\ t # u
    /\ owns[t] /\ ret[t] = "true" /\ pc[t] = "idle"
    /\ owns[u] /\ ret[u] = "none" /\ pc[u] = "idle"
    /\ lock_flag /\ claims = 1

\* A claim attempt is t's next step, and it succeeds.
ClaimSucceeds(t) ==
  \/ /\ pc[t] = "idle"
     /\ ENABLED (try_lock(t) /\ UNCHANGED client /\ ret'[t] = "true")
  \/ /\ pc[t] = "tas"
     /\ ENABLED (lock_test_and_set(t) /\ UNCHANGED client /\ owns'[t])

StepOf(t) == pc'[t] # pc[t] \/ owns'[t] # owns[t]

\* C14: no fairness.  The executions of the unkind schedule are executions
\* of disciplined threads (every step is a step of DefaultNext) in which
\* every thread keeps taking steps, the victim calls lock () and its call
\* never returns although the lock is released and acquired again and again,
\* and the threads that acquire called lock () after the victim did: there
\* is no first-come-first-served order.
NoFairness ==
  /\ [][DefaultNext]_vars
  /\ \A t \in Threads : []<><<StepOf(t)>>_vars
  /\ <>[]InLock(Victim)
  /\ []~owns[Victim]
  /\ []<>(~lock_flag)
  /\ []<>(\E u \in Threads \ {Victim} : owns[u])
  /\ [][\A u \in Threads \ {Victim} :
          (pc[u] = "idle" /\ pc'[u] = "start") => InLock(Victim)]_vars

\* The victim, after a yield, has failed another attempt while a thread
\* that called lock () later is in its critical section.
NoFairnessWitness ==
  /\ pc[Victim] = "now" /\ yielded[Victim] /\ ~owns[Victim]
  /\ \E u \in Threads \ {Victim} : owns[u] /\ pc[u] = "idle"

\* C15: a non-positive default wait count is rejected when the class is
\* instantiated, so no lock exists, and no state is reached, whose default
\* wait duration is zero or negative.
PositiveDefault == default_wait_time > 0

\* A lock of the smallest accepted instantiation, wait_count = 1, on which a
\* lock () with the default duration has spun for it and is about to yield.
PositiveDefaultWitness ==
  /\ default_wait_time = default_wait_time_of(1)
  /\ \E t \in Threads :
       /\ pc[t] = "yield" /\ wait_time[t] = default_wait_time
       /\ elapsed(clock, start[t]) = default_wait_time

\* C16: the spin-then-yield cadence.  A thread comes to the yield only from
\* the clock read that follows a failed claim attempt, and exactly when the
\* time elapsed since the start of the spin phase has reached wait_time,
\* otherwise it attempts again; the only yields are those steps, one for
\* each phase that times out; after the yield the thread reads a new phase
\* start before its next attempt, so every phase makes an attempt before it
\* can yield; an attempt that finds the flag clear returns at once without
\* a yield, so lock () on a free lock returns on its first attempt.
SpinThenYield ==
  [][\A t \in Threads :
       /\ (pc[t] # "now" /\ pc'[t] = "now") => (pc[t] = "tas" /\ lock_flag)
       /\ (pc[t] # "yield" /\ pc'[t] = "yield") =>
            (pc[t] = "now" /\ elapsed(clock, start[t]) >= wait_time[t])
       /\ (pc[t] = "now" /\ pc'[t] # "now") =>
            pc'[t] = IF elapsed(clock, start[t]) >= wait_time[t]
                       THEN "yield" ELSE "tas"
       /\ (pc[t] = "yield" /\ pc'[t] # "yield") => (pc'[t] = "start" /\ yielded'[t])
       /\ (yielded'[t] /\ ~yielded[t]) => pc[t] = "yield"
       /\ (pc[t] = "start" /\ pc'[t] # "start") =>
            (pc'[t] = "tas" /\ start'[t] = clock)
       /\ (pc[t] # "tas" /\ pc'[t] = "tas") => pc[t] \in {"start", "now"}
       /\ (pc[t] = "tas" /\ pc'[t] # "tas" /\ ~lock_flag) =>
            (pc'[t] = "idle" /\ owns'[t] /\ yielded'[t] = yielded[t])
       /\ (pc[t] = "idle" /\ pc'[t] # "idle") => (pc'[t] = "start" /\ ~yielded'[t])]_vars

\* A thread with the default duration has yielded once, has read a later
\* phase start and has failed an attempt of its second phase, while the
\* owner acquired by a lock () that never yielded.
SpinThenYieldWitness ==
  \E t, u \in Threads :
    /\ pc[t] = "now" /\ yielded[t] /\ start[t] > 0
    /\ wait_time[t] = default_wait_time
    /\ owns[u] /\ pc[u] = "idle" /\ ret[u] = "none" /\ ~yielded[u]

\* The plain test-and-set spinlock: a state cell, threads that are either
\* outside or inside lock (), and the acquire and release events.  Inside
\* lock () a thread does nothing but attempt the claim.
plain == <<lock_flag, [t \in Threads |-> InLock(t)], owns, ret>>

plain_others(t) ==
  \A u \in Threads \ {t} :
    InLock(u)' = InLock(u) /\ owns'[u] = owns[u] /\ ret'[u] = ret[u]

plain_call(t) ==
  /\ ~InLock(t) /\ InLock(t)'
  /\ lock_flag' = lock_flag
  /\ owns'[t] = owns[t] /\ ret'[t] = "none"
  /\ plain_others(t)

plain_acquire(t) ==
  /\ InLock(t) /\ ~lock_flag
  /\ lock_flag' /\ ~InLock(t)'
  /\ owns'[t] /\ ret'[t] = ret[t]
  /\ plain_others(t)

plain_try_lock(t) ==
  /\ ~InLock(t) /\ ~InLock(t)'
  /\ lock_flag'
  /\ ret'[t] = BoolStr(~lock_flag)
  /\ owns'[t] = (owns[t] \/ ~lock_flag)
  /\ plain_others(t)

plain_unlock(t) ==
  /\ ~InLock(t) /\ ~InLock(t)'
  /\ ~lock_flag'
  /\ ~owns'[t] /\ ret'[t] = "none"
  /\ plain_others(t)

PlainNext ==
  \E t \in Threads :
    plain_call(t) \/ plain_acquire(t) \/ plain_try_lock(t) \/ plain_unlock(t)

\* How far a thread inside lock () is from its next claim attempt.
StepsToClaim(t) ==
  CASE pc[t] = "now" -> 3
    [] pc[t] = "yield" -> 2
    [] pc[t] = "start" -> 1
    [] OTHER -> 0

\* C17: the wait duration affects only when yields occur.  Seen through
\* the state cell and the acquire and release events, every step of the
\* lock, whatever the wait duration, is a step of the plain test-and-set
\* spinlock or changes nothing (failed attempts, clock reads, yields and
\* new phase starts stutter); and the plain lock's steps are all there: a
\* thread inside lock () can always take its next step, which brings it
\* nearer to its next attempt without a visible change until it makes that
\* attempt, and the attempt succeeds exactly when the cell is free.
PlainRefinement ==
  /\ [][PlainNext]_plain
  /\ [][\A t \in Threads :
          (InLock(t) /\ pc[t] # "tas" /\ pc'[t] # pc[t]) =>
            (plain' = plain /\ StepsToClaim(t)' < StepsToClaim(t))]_vars
  /\ [](\A t \in Threads :
          /\ InLock(t) => ENABLED (lock_step(t) /\ UNCHANGED client)
          /\ pc[t] = "tas" =>
               ENABLED (/\ lock_test_and_set(t) /\ UNCHANGED client
                        /\ InLock(t)' = lock_flag /\ owns'[t] = (owns[t] \/ ~lock_flag)))

\* A lock () with the default duration has spun a phase out, has yielded
\* and stands before the first attempt of its next phase, and all that is
\* visible is a thread inside lock () and an owner that acquired by
\* try_lock ().
PlainRefinementWitness ==
  \E t, u \in Threads :
    /\ t # u
    /\ pc[t] = "tas" /\ yielded[t] /\ wait_time[t] = default_wait_time
    /\ start[t] = clock
    /\ owns[u] /\ ret[u] = "true" /\ lock_flag

\* C18: the flag and the ownership agree.  When every thread keeps the
\* caller discipline, in every state the flag is set exactly when exactly
\* one thread owns the spinlock, and clear exactly when no thread does.
FlagOwnership ==
  /\ lock_flag <=> Cardinality(Owners) = 1
  /\ ~lock_flag <=> Owners = {}

\* The flag is set under a single owner, whose critical section another
\* thread has found closed by a try_lock () that returned false.
FlagOwnershipWitness ==
  /\ lock_flag /\ Cardinality(Owners) = 1
  /\ \E t \in Threads \ Owners : ret[t] = "false" /\ pc[t] = "idle"

\* Some thread is inside lock ().
Waiting == \E t \in Threads : InLock(t)

\* C19: deadlock freedom.  When every thread inside lock () keeps taking
\* steps and every owner eventually calls unlock (), then whenever a thread
\* is inside lock () a held lock is eventually released with the thread
\* still waiting, and a free lock is eventually acquired, so that some
\* thread acquires; the threads never wait for ever while the lock stays
\* free.
DeadlockFreedom ==
  /\ (Waiting /\ lock_flag) ~> (Waiting /\ ~lock_flag)
  /\ (Waiting /\ ~lock_flag) ~> lock_flag
  /\ ~<>[](Waiting /\ ~lock_flag)

\* A thread waits inside lock (), in a later spin phase and just after a
\* failed attempt, while the lock has become free.
DeadlockFreedomWitness ==
  /\ ~lock_flag /\ Owners = {}
  /\ \E t \in Threads : pc[t] = "now" /\ yielded[t]

\* C20: the positivity check covers the default only.  A lock (wait_time)
\* with a zero or negative wait_time is accepted and runs with that value;
\* the thread yields after every single failed claim attempt, so each of its
\* spin phases is one attempt; it is never stuck, goes from the yield to a
\* new phase and its next attempt, and acquires when an attempt finds the
\* flag clear.
NonPositiveWait ==
  /\ [](\A t \in Threads : \A wt \in WaitTimes :
          /\ wt <= 0
          /\ (pc[t] = "idle" /\ MayClaim(t)) =>
               ENABLED (/\ lock_call(t, wt) /\ UNCHANGED client
                        /\ InLock(t)' /\ wait_time'[t] = wt)
          /\ (InLock(t) /\ wait_time[t] = wt) =>
               ENABLED (lock_step(t) /\ UNCHANGED client))
  /\ [][\A t \in Threads :
          (InLock(t) /\ wait_time[t] <= 0) =>
            /\ InLock(t)' => wait_time'[t] = wait_time[t]
            /\ (pc[t] = "now" /\ pc'[t] # "now") => pc'[t] = "yield"
            /\ (pc[t] = "yield" /\ pc'[t] # "yield") => pc'[t] = "start"
            /\ (pc[t] = "start" /\ pc'[t] # "start") => pc'[t] = "tas"
            /\ (pc[t] = "tas" /\ pc'[t] # "tas") =>
                 IF lock_flag THEN pc'[t] = "now" /\ owns'[t] = owns[t]
                              ELSE pc'[t] = "idle" /\ owns'[t]]_vars

\* A lock () called with a negative wait_time is about to yield for the
\* second time, no time having passed since the start of its phase.
NonPositiveWaitWitness ==
  \E t \in Threads :
    /\ pc[t] = "yield" /\ yielded[t]
    /\ wait_time[t] < 0 /\ elapsed(clock, start[t]) = 0

=============================================================================
